---- MODULE Spec2Model ----
(***************************************************************************)
(* Model of boojum's MixedGL (src/field/goldilocks/arm_asm_impl.rs): the   *)
(* 16-lane batch of Goldilocks field elements, its branchless SIMD         *)
(* add/sub/negate/to_reduced, the butterfly primitives and the scalar <->  *)
(* batch buffer reinterpretation.                                          *)
(*                                                                         *)
(* A u64 lane is a tuple of four 16-bit limbs, most significant first, so  *)
(* <<65535, 65535, 0, 1>> is 0xFFFF_FFFF_0000_0001.  All lane arithmetic   *)
(* is exact 64-bit wrapping arithmetic on these limbs.                     *)
(***************************************************************************)
EXTENDS Integers, Sequences, FiniteSets, TLC

\* ------------------------------------------------------------------------
\* u64 words as limb tuples
\* ------------------------------------------------------------------------

LimbBase == 2^16

\* limbs 1..i of x + y + c, where c is the carry into limb i; the carry out of
\* limb 1 is dropped (arithmetic modulo LimbBase^Len(x))
RECURSIVE add_limbs(_, _, _, _)
add_limbs(x, y, i, c) ==
    IF i = 0 THEN << >>
    ELSE LET s == x[i] + y[i] + c
         IN  Append(add_limbs(x, y, i - 1, s \div LimbBase), s % LimbBase)

\* u64 + u64 of std::simd (Add for Simd<u64, N>): wrapping
wrapping_add(x, y) == add_limbs(x, y, Len(x), 0)

\* u64 - u64 of std::simd (Sub for Simd<u64, N>): wrapping, x + ~y + 1
wrapping_sub(x, y) ==
    add_limbs(x, [i \in 1..Len(y) |-> LimbBase - 1 - y[i]], Len(x), 1)

\* unsigned x < y (one lane of simd_lt)
lt(x, y) ==
    \E i \in 1..Len(x) : /\ x[i] < y[i]
                         /\ \A j \in 1..(i - 1) : x[j] = y[j]

ZERO == <<0, 0, 0, 0>>

\* GoldilocksField::ORDER = 0xFFFF_FFFF_0000_0001 = 2^64 - 2^32 + 1
ORDER == <<65535, 65535, 0, 1>>

\* EPSILON = (1 << 32) - 1 = 0x0000_0000_FFFF_FFFF
EPSILON == <<0, 0, 65535, 65535>>

\* ------------------------------------------------------------------------
\* Exact naturals as 5-limb tuples (80 bits), and residues modulo p
\* ------------------------------------------------------------------------

wide(x) == <<0>> \o x
plus(x, y) == add_limbs(x, y, Len(x), 0)
P == wide(ORDER)
TwoP == plus(P, P)
Zero5 == wide(ZERO)

\* z mod p, by repeated subtraction
RECURSIVE mod_p(_)
mod_p(z) == IF lt(z, P) THEN z ELSE mod_p(wrapping_sub(z, P))

\* (x mod p) of a u64
canon(x) == mod_p(wide(x))
\* x == y (mod p), for wide x, y
congruent(x, y) == mod_p(x) = mod_p(y)
is_canonical(x) == lt(x, ORDER)

\* ------------------------------------------------------------------------
\* The scalar field GoldilocksField (one u64 per element)
\* ------------------------------------------------------------------------

ONE == <<0, 0, 0, 1>>

\* the 8 bytes of a u64, least significant first
bytes_of(x) ==
    [k \in 0..7 |-> LET l == x[4 - (k \div 2)]
                    IN  IF k % 2 = 0 THEN l % 256 ELSE l \div 256]

\* column k of the schoolbook product: the sum of bx[i] * by[k - i], from i up
RECURSIVE column(_, _, _, _)
column(bx, by, k, i) ==
    IF i > 7 THEN 0
    ELSE (IF (k - i) \in 0..7 THEN bx[i] * by[k - i] ELSE 0) + column(bx, by, k, i + 1)

\* bytes k..15 of the product, least significant first, c the carry into byte k
RECURSIVE product_bytes(_, _, _, _)
product_bytes(bx, by, k, c) ==
    IF k > 15 THEN << >>
    ELSE LET s == column(bx, by, k, 0) + c
         IN  <<s % 256>> \o product_bytes(bx, by, k + 1, s \div 256)

\* the 128-bit product (x as u128) * (y as u128), as 8 limbs
widening_mul(x, y) ==
    LET b == product_bytes(bytes_of(x), bytes_of(y), 0, 0)
    IN  [i \in 1..8 |-> b[2 * (8 - i) + 2] * 256 + b[2 * (8 - i) + 1]]

\* a 128-bit value reduced to the canonical residue: with z = lo + 2^64 * (hl +
\* 2^32 * hh), 2^64 == EPSILON and 2^96 == -1 (mod p), so
\* z == lo + 2^32 * hl + (p - hl) + (p - hh)
reduce128(z) ==
    LET lo == <<z[5], z[6], z[7], z[8]>>
        hl_shifted == <<z[3], z[4], 0, 0>>
        neg_hl == wrapping_sub(ORDER, <<0, 0, z[3], z[4]>>)
        neg_hh == wrapping_sub(ORDER, <<0, 0, z[1], z[2]>>)
    IN  Tail(mod_p(plus(plus(wide(lo), wide(hl_shifted)),
                        plus(wide(neg_hl), wide(neg_hh)))))

\* GoldilocksField::mul_assign: the product in the field
GoldilocksField_mul_assign(x, y) == reduce128(widening_mul(x, y))

\* GoldilocksField::is_zero
GoldilocksField_is_zero(x) == canon(x) = Zero5

None == [some |-> FALSE, val |-> ZERO]
Some(v) == [some |-> TRUE, val |-> v]

\* the inverses of the residues explored
InverseTable ==
    { <<0, 0, 0, 1>>, <<9362, 18724, 18724, 37449>>, <<32767, 65535, 32768, 0>>,
      <<43690, 43689, 43690, 43691>>, <<65535, 65533, 0, 1>>, <<65535, 65534, 0, 1>>,
      <<65535, 65534, 0, 2>>, <<65535, 65535, 0, 0>> }

\* PrimeField::inverse for GoldilocksField: None for the additive identity,
\* otherwise the element whose product with x is ONE
GoldilocksField_inverse(x) ==
    IF GoldilocksField_is_zero(x) THEN None
    ELSE Some(CHOOSE y \in InverseTable : GoldilocksField_mul_assign(x, y) = ONE)

\* ------------------------------------------------------------------------
\* SIMD vectors: functions from lane index 0..n-1 to u64
\* ------------------------------------------------------------------------

Lanes4 == 0..3
Lanes8 == 0..7
Lanes16 == 0..15

splat(dom, w) == [j \in dom |-> w]

EPSILON_VECTOR == splat(Lanes4, EPSILON)
EPSILON_VECTOR_D == splat(Lanes8, EPSILON)

simd_add(x, y) == [j \in DOMAIN x |-> wrapping_add(x[j], y[j])]
simd_sub(x, y) == [j \in DOMAIN x |-> wrapping_sub(x[j], y[j])]
simd_lt(x, y) == [j \in DOMAIN x |-> lt(x[j], y[j])]
simd_eq(x, y) == [j \in DOMAIN x |-> x[j] = y[j]]
bitor(m, n) == [j \in DOMAIN m |-> m[j] \/ n[j]]
\* Mask::select(true_values, false_values)
select(m, t, f) == [j \in DOMAIN m |-> IF m[j] THEN t[j] ELSE f[j]]

\* simd_shuffle(x, y, idx): output lane k is lane idx[k] of the concatenation x ++ y
simd_shuffle(x, y, idx) ==
    [k \in Lanes8 |-> IF idx[k + 1] < 8 THEN x[idx[k + 1]] ELSE y[idx[k + 1] - 8]]

\* transmutes between MixedGL ([GoldilocksField; 16]) and its SIMD views
as_u64x4_arrays(input) == [i \in Lanes4 |-> [j \in Lanes4 |-> input[4 * i + j]]]
from_u64x4_arrays(input) == [k \in Lanes16 |-> input[k \div 4][k % 4]]
as_u64x8_arrays(input) == [i \in 0..1 |-> [j \in Lanes8 |-> input[8 * i + j]]]
from_u64x8_arrays(input) == [k \in Lanes16 |-> input[k \div 8][k % 8]]

\* ------------------------------------------------------------------------
\* MixedGL arithmetic
\* ------------------------------------------------------------------------

\* to_reduced's loop body with the overflow test made on a instead of a + EPSILON
to_reduced_chunk_cmp_on_input(a) ==
    LET a_reduced == simd_add(a, EPSILON_VECTOR)
        cmp == simd_lt(a, EPSILON_VECTOR)
    IN  select(cmp, a_reduced, a)

\* body of the loop of to_reduced, for one u64x4
to_reduced_chunk(a) ==
    LET a_reduced == simd_add(a, EPSILON_VECTOR)
        cmp == simd_lt(a_reduced, EPSILON_VECTOR)
    IN  select(cmp, a_reduced, a)

to_reduced(self) ==
    LET a_u64 == as_u64x4_arrays(self)
    IN  from_u64x4_arrays([i \in Lanes4 |-> to_reduced_chunk(a_u64[i])])

\* add_assign_impl's loop body without the wrap-around test cmp1
add_assign_chunk_no_wrap_flag(a, b0) ==
    LET b_reduced == simd_add(b0, EPSILON_VECTOR)
        cmp == simd_lt(b_reduced, EPSILON_VECTOR)
        b == select(cmp, b_reduced, b0)
        sum == simd_add(a, b)
        sum_reduced == simd_add(sum, EPSILON_VECTOR)
        cmp0 == simd_lt(sum_reduced, sum)
    IN  select(cmp0, sum_reduced, sum)

\* add_assign_impl's loop body without the reduction of the right operand
add_assign_chunk_unreduced_rhs(a, b) ==
    LET sum == simd_add(a, b)
        sum_reduced == simd_add(sum, EPSILON_VECTOR)
        cmp0 == simd_lt(sum_reduced, sum)
        cmp1 == simd_lt(sum, a)
        reduce_flag == bitor(cmp0, cmp1)
    IN  select(reduce_flag, sum_reduced, sum)

\* body of the loop of add_assign_impl, for one pair of u64x4
add_assign_chunk(a, b0) ==
    LET b_reduced == simd_add(b0, EPSILON_VECTOR)
        cmp == simd_lt(b_reduced, EPSILON_VECTOR)
        b == select(cmp, b_reduced, b0)
        sum == simd_add(a, b)
        sum_reduced == simd_add(sum, EPSILON_VECTOR)
        cmp0 == simd_lt(sum_reduced, sum)
        cmp1 == simd_lt(sum, a)
        reduce_flag == bitor(cmp0, cmp1)
    IN  select(reduce_flag, sum_reduced, sum)

add_assign_impl(self, rhs) ==
    LET a_u64 == as_u64x4_arrays(self)
        b_u64 == as_u64x4_arrays(rhs)
    IN  from_u64x4_arrays([i \in Lanes4 |-> add_assign_chunk(a_u64[i], b_u64[i])])

\* sub_assign_impl's loop body without the reduction of the right operand
sub_assign_chunk_unreduced_rhs(a, b) ==
    LET diff == simd_sub(a, b)
        diff_reduced == simd_sub(diff, EPSILON_VECTOR)
        cmp2 == simd_lt(a, b)
    IN  select(cmp2, diff_reduced, diff)

\* sub_assign_impl's loop body with the borrow test made against the unreduced b
sub_assign_chunk_cmp_unreduced(a, b0) ==
    LET b_reduced == simd_add(b0, EPSILON_VECTOR)
        cmp == simd_lt(b_reduced, EPSILON_VECTOR)
        b == select(cmp, b_reduced, b0)
        diff == simd_sub(a, b)
        diff_reduced == simd_sub(diff, EPSILON_VECTOR)
        cmp2 == simd_lt(a, b0)
    IN  select(cmp2, diff_reduced, diff)

\* body of the loop of sub_assign_impl, for one pair of u64x4
sub_assign_chunk(a, b0) ==
    LET b_reduced == simd_add(b0, EPSILON_VECTOR)
        cmp == simd_lt(b_reduced, EPSILON_VECTOR)
        b == select(cmp, b_reduced, b0)
        diff == simd_sub(a, b)
        diff_reduced == simd_sub(diff, EPSILON_VECTOR)
        cmp2 == simd_lt(a, b)
    IN  select(cmp2, diff_reduced, diff)

sub_assign_impl(self, rhs) ==
    LET a_u64 == as_u64x4_arrays(self)
        b_u64 == as_u64x4_arrays(rhs)
    IN  from_u64x4_arrays([i \in Lanes4 |-> sub_assign_chunk(a_u64[i], b_u64[i])])

\* negate's loop body with the operands of the subtraction exchanged
negate_chunk_swapped_sub(a) ==
    LET is_zero == simd_eq(a, splat(Lanes4, ZERO))
        neg == simd_sub(a, splat(Lanes4, ORDER))
    IN  select(is_zero, a, neg)

\* body of the loop of negate, for one u64x4
negate_chunk(a) ==
    LET is_zero == simd_eq(a, splat(Lanes4, ZERO))
        neg == simd_sub(splat(Lanes4, ORDER), a)
    IN  select(is_zero, a, neg)

negate(self) ==
    LET a_u64 == as_u64x4_arrays(self)
    IN  from_u64x4_arrays([i \in Lanes4 |-> negate_chunk(a_u64[i])])

\* butterfly_1x1_impl: pairs (2k, 2k + 1)
BF1_U == <<0, 2, 4, 6, 8, 10, 12, 14>>
BF1_V == <<1, 3, 5, 7, 9, 11, 13, 15>>
BF1_OUT1 == <<0, 8, 1, 9, 2, 10, 3, 11>>
BF1_OUT2 == <<4, 12, 5, 13, 6, 14, 7, 15>>

butterfly_1x1_impl(self) ==
    LET part == as_u64x8_arrays(self)
        u == simd_shuffle(part[0], part[1], BF1_U)
        v0 == simd_shuffle(part[0], part[1], BF1_V)
        v_reduced == simd_add(v0, EPSILON_VECTOR_D)
        cmp == simd_lt(v_reduced, EPSILON_VECTOR_D)
        v == select(cmp, v_reduced, v0)
        sum == simd_add(u, v)
        sum_reduced == simd_add(sum, EPSILON_VECTOR_D)
        cmp0 == simd_lt(sum_reduced, sum)
        cmp1 == simd_lt(sum, u)
        reduce_flag == bitor(cmp0, cmp1)
        res1 == select(reduce_flag, sum_reduced, sum)
        diff == simd_sub(u, v)
        diff_reduced == simd_sub(diff, EPSILON_VECTOR_D)
        cmp2 == simd_lt(u, v)
        res2 == select(cmp2, diff_reduced, diff)
        part1 == simd_shuffle(res1, res2, BF1_OUT1)
        part2 == simd_shuffle(res1, res2, BF1_OUT2)
    IN  from_u64x8_arrays([i \in 0..1 |-> IF i = 0 THEN part1 ELSE part2])

\* butterfly_2x2_impl: pairs (4k + j, 4k + j + 2), j < 2
BF2_U == <<0, 1, 4, 5, 8, 9, 12, 13>>
BF2_V == <<2, 3, 6, 7, 10, 11, 14, 15>>
BF2_OUT1 == <<0, 1, 8, 9, 2, 3, 10, 11>>
\* second output shuffle of butterfly_2x2_impl with its last two indices exchanged
BF2_OUT2_last_pair_swapped == <<4, 5, 12, 13, 6, 7, 15, 14>>
BF2_OUT2 == <<4, 5, 12, 13, 6, 7, 14, 15>>

butterfly_2x2_impl(self) ==
    LET part == as_u64x8_arrays(self)
        u == simd_shuffle(part[0], part[1], BF2_U)
        v0 == simd_shuffle(part[0], part[1], BF2_V)
        v_reduced == simd_add(v0, EPSILON_VECTOR_D)
        cmp == simd_lt(v_reduced, EPSILON_VECTOR_D)
        v == select(cmp, v_reduced, v0)
        sum == simd_add(u, v)
        sum_reduced == simd_add(sum, EPSILON_VECTOR_D)
        cmp0 == simd_lt(sum_reduced, sum)
        cmp1 == simd_lt(sum, u)
        reduce_flag == bitor(cmp0, cmp1)
        res1 == select(reduce_flag, sum_reduced, sum)
        diff == simd_sub(u, v)
        diff_reduced == simd_sub(diff, EPSILON_VECTOR_D)
        cmp2 == simd_lt(u, v)
        res2 == select(cmp2, diff_reduced, diff)
        part1 == simd_shuffle(res1, res2, BF2_OUT1)
        part2 == simd_shuffle(res1, res2, BF2_OUT2)
    IN  from_u64x8_arrays([i \in 0..1 |-> IF i = 0 THEN part1 ELSE part2])

\* butterfly_4x4_impl: pairs (8k + j, 8k + j + 4), j < 4
BF4_U == <<0, 1, 2, 3, 8, 9, 10, 11>>
BF4_V == <<4, 5, 6, 7, 12, 13, 14, 15>>
BF4_OUT1 == <<0, 1, 2, 3, 8, 9, 10, 11>>
BF4_OUT2 == <<4, 5, 6, 7, 12, 13, 14, 15>>

\* butterfly_4x4_impl taking the difference from the sum just computed instead of
\* from the original u
butterfly_4x4_impl_diff_of_sum(self) ==
    LET part == as_u64x8_arrays(self)
        u == simd_shuffle(part[0], part[1], BF4_U)
        v0 == simd_shuffle(part[0], part[1], BF4_V)
        v_reduced == simd_add(v0, EPSILON_VECTOR_D)
        cmp == simd_lt(v_reduced, EPSILON_VECTOR_D)
        v == select(cmp, v_reduced, v0)
        sum == simd_add(u, v)
        sum_reduced == simd_add(sum, EPSILON_VECTOR_D)
        cmp0 == simd_lt(sum_reduced, sum)
        cmp1 == simd_lt(sum, u)
        reduce_flag == bitor(cmp0, cmp1)
        res1 == select(reduce_flag, sum_reduced, sum)
        diff == simd_sub(res1, v)
        diff_reduced == simd_sub(diff, EPSILON_VECTOR_D)
        cmp2 == simd_lt(res1, v)
        res2 == select(cmp2, diff_reduced, diff)
        part1 == simd_shuffle(res1, res2, BF4_OUT1)
        part2 == simd_shuffle(res1, res2, BF4_OUT2)
    IN  from_u64x8_arrays([i \in 0..1 |-> IF i = 0 THEN part1 ELSE part2])

butterfly_4x4_impl(self) ==
    LET part == as_u64x8_arrays(self)
        u == simd_shuffle(part[0], part[1], BF4_U)
        v0 == simd_shuffle(part[0], part[1], BF4_V)
        v_reduced == simd_add(v0, EPSILON_VECTOR_D)
        cmp == simd_lt(v_reduced, EPSILON_VECTOR_D)
        v == select(cmp, v_reduced, v0)
        sum == simd_add(u, v)
        sum_reduced == simd_add(sum, EPSILON_VECTOR_D)
        cmp0 == simd_lt(sum_reduced, sum)
        cmp1 == simd_lt(sum, u)
        reduce_flag == bitor(cmp0, cmp1)
        res1 == select(reduce_flag, sum_reduced, sum)
        diff == simd_sub(u, v)
        diff_reduced == simd_sub(diff, EPSILON_VECTOR_D)
        cmp2 == simd_lt(u, v)
        res2 == select(cmp2, diff_reduced, diff)
        part1 == simd_shuffle(res1, res2, BF4_OUT1)
        part2 == simd_shuffle(res1, res2, BF4_OUT2)
    IN  from_u64x8_arrays([i \in 0..1 |-> IF i = 0 THEN part1 ELSE part2])

\* ------------------------------------------------------------------------
\* Raw-pointer butterflies.  mem is the u64 memory both pointers point into
\* (a function from word index to u64); a pointer is a word index.
\* ------------------------------------------------------------------------

\* slice::from_raw_parts_mut(p, 8) read through u64x8::from_slice
from_slice(mem, p) == [j \in Lanes8 |-> mem[p + j]]

\* Simd::copy_to_slice onto the 8 words at p
copy_to_slice(mem, p, v) ==
    [k \in DOMAIN mem |-> IF k \in p..(p + 7) THEN v[k - p] ELSE mem[k]]

\* butterfly_8x8_impl storing the difference through this and the sum through other
butterfly_8x8_impl_swapped_stores(mem, this_p, other_p) ==
    LET a == from_slice(mem, this_p)
        b0 == from_slice(mem, other_p)
        b_reduced == simd_add(b0, EPSILON_VECTOR_D)
        cmp == simd_lt(b_reduced, EPSILON_VECTOR_D)
        b == select(cmp, b_reduced, b0)
        sum == simd_add(a, b)
        sum_reduced == simd_add(sum, EPSILON_VECTOR_D)
        cmp0 == simd_lt(sum_reduced, sum)
        cmp1 == simd_lt(sum, a)
        reduce_flag == bitor(cmp0, cmp1)
        res1 == select(reduce_flag, sum_reduced, sum)
        diff == simd_sub(a, b)
        diff_reduced == simd_sub(diff, EPSILON_VECTOR_D)
        cmp2 == simd_lt(a, b)
        res2 == select(cmp2, diff_reduced, diff)
    IN  copy_to_slice(copy_to_slice(mem, this_p, res2), other_p, res1)

butterfly_8x8_impl(mem, this_p, other_p) ==
    LET a == from_slice(mem, this_p)
        b0 == from_slice(mem, other_p)
        b_reduced == simd_add(b0, EPSILON_VECTOR_D)
        cmp == simd_lt(b_reduced, EPSILON_VECTOR_D)
        b == select(cmp, b_reduced, b0)
        sum == simd_add(a, b)
        sum_reduced == simd_add(sum, EPSILON_VECTOR_D)
        cmp0 == simd_lt(sum_reduced, sum)
        cmp1 == simd_lt(sum, a)
        reduce_flag == bitor(cmp0, cmp1)
        res1 == select(reduce_flag, sum_reduced, sum)
        diff == simd_sub(a, b)
        diff_reduced == simd_sub(diff, EPSILON_VECTOR_D)
        cmp2 == simd_lt(a, b)
        res2 == select(cmp2, diff_reduced, diff)
    IN  copy_to_slice(copy_to_slice(mem, this_p, res1), other_p, res2)

\* butterfly_16x16_impl that advances this but not other before the second call
butterfly_16x16_impl_other_not_advanced(mem, this_p, other_p) ==
    LET m1 == butterfly_8x8_impl(mem, this_p, other_p)
    IN  butterfly_8x8_impl(m1, this_p + 8, other_p)

butterfly_16x16_impl(mem, this_p, other_p) ==
    LET m1 == butterfly_8x8_impl(mem, this_p, other_p)
    IN  butterfly_8x8_impl(m1, this_p + 8, other_p + 8)

\* two batches laid out back to back, as av[0], av[1] of a Vec<MixedGL>
Words32 == 0..31
join(t, o) == [k \in Words32 |-> IF k < 16 THEN t[k] ELSE o[k - 16]]
batch_at(mem, p) == [k \in Lanes16 |-> mem[p + k]]

\* ------------------------------------------------------------------------
\* Inputs
\* ------------------------------------------------------------------------

\* boundary values of the lane range: 0, 1, EPSILON, 2^32, 2^63, ORDER - 2,
\* ORDER - 1, ORDER, ORDER + 1, 2^64 - 2, 2^64 - 1
Vals ==
    << <<0, 0, 0, 0>>, <<0, 0, 0, 1>>, <<0, 0, 65535, 65535>>, <<0, 1, 0, 0>>,
       <<32768, 0, 0, 0>>, <<65535, 65534, 65535, 65535>>, <<65535, 65535, 0, 0>>,
       <<65535, 65535, 0, 1>>, <<65535, 65535, 0, 2>>,
       <<65535, 65535, 65535, 65534>>, <<65535, 65535, 65535, 65535>> >>

NVals == Len(Vals)

\* batch whose lane i holds Vals[s + d * i] (indices modulo NVals)
Gen(s, d) == [i \in Lanes16 |-> Vals[((s + d * i) % NVals) + 1]]

\* the 32-word array am of test_mixedgl_butterfly16x16
TestArray ==
    << <<1, 0, 0, 0>>,
       <<0, 0, 0, 1>>,
       <<1, 0, 0, 0>>,
       <<0, 0, 0, 1>>,
       <<0, 0, 0, 0>>,
       <<65535, 65535, 0, 0>>,
       <<0, 0, 0, 1>>,
       <<0, 65535, 65535, 65535>>,
       <<0, 0, 0, 0>>,
       <<1, 0, 0, 0>>,
       <<65535, 65535, 0, 0>>,
       <<65535, 65535, 0, 0>>,
       <<65535, 65535, 0, 0>>,
       <<65534, 65535, 0, 1>>,
       <<65534, 65535, 0, 2>>,
       <<65534, 65535, 0, 2>>,
       <<0, 0, 0, 0>>,
       <<65535, 65535, 256, 1>>,
       <<0, 0, 0, 0>>,
       <<0, 256, 255, 65280>>,
       <<65535, 65279, 0, 257>>,
       <<65535, 65534, 65280, 1>>,
       <<0, 255, 65535, 65280>>,
       <<65535, 65279, 256, 257>>,
       <<0, 0, 0, 0>>,
       <<65535, 65279, 0, 257>>,
       <<65535, 65534, 65280, 1>>,
       <<65535, 65535, 256, 1>>,
       <<0, 255, 65279, 65280>>,
       <<0, 0, 0, 0>>,
       <<65535, 65535, 256, 1>>,
       <<0, 255, 65535, 65280>> >>

TestMem == [k \in Words32 |-> TestArray[k + 1]]

\* ------------------------------------------------------------------------
\* Buffer reinterpretation (PrimeFieldLikeVectorized for MixedGL)
\* ------------------------------------------------------------------------

\* lanes per MixedGL (PrimeFieldLikeVectorized::SIZE_FACTOR)
SIZE_FACTOR == 16

\* std::mem::align_of::<MixedGL>(), from #[repr(C, align(64))]
ALIGN == 64

NoBuf == [ty |-> "none", ptr |-> 0, len |-> 0, cap |-> 0]

\* slice_from_base_slice without the minimum-length check
slice_from_base_slice_no_min_check(input, dbg) ==
    IF dbg /\ input.len % SIZE_FACTOR # 0
    THEN <<"panic: debug_assert len", NoBuf>>
    ELSE IF dbg /\ input.ptr % ALIGN # 0
    THEN <<"panic: debug_assert align", NoBuf>>
    ELSE LET result_len == input.len \div 16
         IN  <<"ok", [ty |-> "MixedGL", ptr |-> input.ptr, len |-> result_len,
                      cap |-> result_len]>>

\* outcome of slice_from_base_slice(input) in a build with (dbg) or without
\* debug assertions: <<status, returned slice>>
slice_from_base_slice(input, dbg) ==
    IF input.len < SIZE_FACTOR
    THEN <<"panic: too small input size to cast", NoBuf>>
    ELSE IF dbg /\ input.len % SIZE_FACTOR # 0
    THEN <<"panic: debug_assert len", NoBuf>>
    ELSE IF dbg /\ input.ptr % ALIGN # 0
    THEN <<"panic: debug_assert align", NoBuf>>
    ELSE LET result_len == input.len \div 16
         IN  <<"ok", [ty |-> "MixedGL", ptr |-> input.ptr, len |-> result_len,
                      cap |-> result_len]>>

\* vec_from_base_vec without the assertion on the capacity
vec_from_base_vec_no_capacity_check(input, dbg) ==
    IF input.len < SIZE_FACTOR
    THEN <<"panic: too small input size to cast", NoBuf>>
    ELSE IF dbg /\ input.ptr % ALIGN # 0
    THEN <<"panic: debug_assert align", NoBuf>>
    ELSE IF dbg /\ input.len % SIZE_FACTOR # 0
    THEN <<"panic: debug_assert len", NoBuf>>
    ELSE <<"ok", [ty |-> "MixedGL", ptr |-> input.ptr,
                  len |-> input.len \div SIZE_FACTOR,
                  cap |-> input.cap \div SIZE_FACTOR]>>

\* outcome of vec_from_base_vec(input): <<status, returned Vec>>
vec_from_base_vec(input, dbg) ==
    IF input.len < SIZE_FACTOR
    THEN <<"panic: too small input size to cast", NoBuf>>
    ELSE IF dbg /\ input.ptr % ALIGN # 0
    THEN <<"panic: debug_assert align", NoBuf>>
    ELSE IF dbg /\ input.len % SIZE_FACTOR # 0
    THEN <<"panic: debug_assert len", NoBuf>>
    ELSE IF dbg /\ input.cap % SIZE_FACTOR # 0
    THEN <<"panic: debug_assert capacity", NoBuf>>
    ELSE <<"ok", [ty |-> "MixedGL", ptr |-> input.ptr,
                  len |-> input.len \div SIZE_FACTOR,
                  cap |-> input.cap \div SIZE_FACTOR]>>

\* outcome of slice_into_base_slice(input): the returned slice
slice_into_base_slice(input) ==
    LET result_len == input.len * 16
    IN  [ty |-> "GoldilocksField", ptr |-> input.ptr, len |-> result_len,
         cap |-> result_len]

\* vec_into_base_vec handing the new length to from_raw_parts_in as the capacity too
vec_into_base_vec_len_as_capacity(input) ==
    [ty |-> "GoldilocksField", ptr |-> input.ptr,
     len |-> input.len * SIZE_FACTOR,
     cap |-> input.len * SIZE_FACTOR]

\* outcome of vec_into_base_vec(input): the returned Vec
vec_into_base_vec(input) ==
    [ty |-> "GoldilocksField", ptr |-> input.ptr,
     len |-> input.len * SIZE_FACTOR,
     cap |-> input.cap * SIZE_FACTOR]

\* size_of::<GoldilocksField>() (one u64) and size_of::<MixedGL>() (16 of them)
SIZE_OF_U64 == 8
SIZE_OF_MIXEDGL == 128

\* byte address of element i of a scalar buffer
elem_addr(b, i) == b.ptr + SIZE_OF_U64 * i

\* byte address of lane j of batch k of a batch buffer
lane_addr(b, k, j) == b.ptr + SIZE_OF_MIXEDGL * k + SIZE_OF_U64 * j

\* byte address of the word a pointer (a word index) points to, in a memory
\* whose word 0 is at byte address base
addr(base, p) == base + SIZE_OF_U64 * p

\* this.addr() % std::mem::align_of::<MixedGL>() == 0
is_aligned(a) == a % ALIGN = 0

\* the words res1.copy_to_slice(u), res2.copy_to_slice(v) store to, in order
stores_8x8(this_p, other_p) ==
    [k \in 1..16 |-> IF k <= 8 THEN this_p + k - 1 ELSE other_p + k - 9]

\* one call of butterfly_8x8_impl in a build with (dbg) or without debug
\* assertions: how it ended, the memory it left and the record of the call
call_butterfly_8x8(mem, base, this_p, other_p, dbg) ==
    LET ok == is_aligned(addr(base, this_p)) /\ is_aligned(addr(base, other_p))
        entry == [this |-> addr(base, this_p), other |-> addr(base, other_p),
                  aligned |-> ok]
    IN  IF dbg /\ ~ok
        THEN [status |-> "panic: debug_assert align", mem |-> mem,
              trace |-> << entry @@ [stores |-> << >>] >>]
        ELSE [status |-> "ok", mem |-> butterfly_8x8_impl(mem, this_p, other_p),
              trace |-> << entry @@ [stores |-> stores_8x8(this_p, other_p)] >>]

\* butterfly_16x16_impl advancing both pointers by 4 elements instead of 8
call_butterfly_16x16_offset_4(mem, base, this_p, other_p, dbg) ==
    IF dbg /\ ~(is_aligned(addr(base, this_p)) /\ is_aligned(addr(base, other_p)))
    THEN [status |-> "panic: debug_assert align", mem |-> mem, trace |-> << >>]
    ELSE LET c1 == call_butterfly_8x8(mem, base, this_p, other_p, dbg)
         IN  IF c1.status # "ok" THEN c1
             ELSE LET c2 == call_butterfly_8x8(c1.mem, base, this_p + 4, other_p + 4, dbg)
                  IN  [status |-> c2.status, mem |-> c2.mem,
                       trace |-> c1.trace \o c2.trace]

\* one call of butterfly_16x16_impl: its two assertions, the 8-lane call, both
\* pointers advanced by offset(8), the second 8-lane call
call_butterfly_16x16(mem, base, this_p, other_p, dbg) ==
    IF dbg /\ ~(is_aligned(addr(base, this_p)) /\ is_aligned(addr(base, other_p)))
    THEN [status |-> "panic: debug_assert align", mem |-> mem, trace |-> << >>]
    ELSE LET c1 == call_butterfly_8x8(mem, base, this_p, other_p, dbg)
         IN  IF c1.status # "ok" THEN c1
             ELSE LET c2 == call_butterfly_8x8(c1.mem, base, this_p + 8, other_p + 8, dbg)
                  IN  [status |-> c2.status, mem |-> c2.mem,
                       trace |-> c1.trace \o c2.trace]

\* from_constant(value) and PrimeFieldLike::constant(value): Self([value; 16])
constant(value) == [i \in Lanes16 |-> value]

\* the loop of mul_assign_impl multiplying lane i by the lane before it
RECURSIVE mul_assign_loop_lane_before(_, _, _)
mul_assign_loop_lane_before(self, rhs, i) ==
    IF i = 16 THEN self
    ELSE mul_assign_loop_lane_before(
             [self EXCEPT ![i] = GoldilocksField_mul_assign(self[i], rhs[(i + 15) % 16])],
             rhs, i + 1)

\* for i in 0..16 { self.0[i].mul_assign(&other.0[i]); }, from lane i on
RECURSIVE mul_assign_loop(_, _, _)
mul_assign_loop(self, rhs, i) ==
    IF i = 16 THEN self
    ELSE mul_assign_loop(
             [self EXCEPT ![i] = GoldilocksField_mul_assign(self[i], rhs[i])],
             rhs, i + 1)

mul_assign_impl(self, rhs) == mul_assign_loop(self, rhs, 0)

\* PrimeFieldLike::mul_assign
mul_assign(self, rhs) == mul_assign_impl(self, rhs)

\* for i in 0..16 { self.0[i].mul_assign(other); }, from lane i on
RECURSIVE mul_constant_assign_loop(_, _, _)
mul_constant_assign_loop(self, s, i) ==
    IF i = 16 THEN self
    ELSE mul_constant_assign_loop(
             [self EXCEPT ![i] = GoldilocksField_mul_assign(self[i], s)], s, i + 1)

mul_constant_assign(self, s) == mul_constant_assign_loop(self, s, 0)

\* PrimeFieldLikeVectorized::mul_all_by_base
mul_all_by_base(self, s) == mul_constant_assign(self, s)

\* PrimeFieldLike::square: let t = *self; self.mul_assign(&t, _ctx)
square(self) ==
    LET t == self
    IN  mul_assign(self, t)

\* PrimeFieldLike::double: let t = *self; self.add_assign(&t, _ctx)
double(self) ==
    LET t == self
    IN  add_assign_impl(self, t)

\* GoldilocksField::add_assign: the sum in the field
GoldilocksField_add_assign(x, y) == Tail(mod_p(plus(wide(x), wide(y))))

\* GoldilocksField::from_nonreduced_u64: the field element of a u64
from_nonreduced_u64(x) == Tail(canon(x))

\* specialize_for_len storing the length in the first capacity element
specialize_for_len_first_capacity(len, state) ==
    [state EXCEPT ![8] = from_nonreduced_u64(len)]

\* specialize_for_len(len, state), len given as the u64 of `len as u64`
specialize_for_len(len, state) ==
    [state EXCEPT ![11] = from_nonreduced_u64(len)]

\* AbsorptionMode::Overwrite: while i < 8 { state[i] = to_absorb[i]; i += 1 }
RECURSIVE absorb_overwrite(_, _, _)
absorb_overwrite(state, to_absorb, i) ==
    IF ~(i < 8) THEN state
    ELSE absorb_overwrite([state EXCEPT ![i] = to_absorb[i]], to_absorb, i + 1)

\* AbsorptionMode::Addition: while i < 8 { state[i].add_assign(&to_absorb[i]); i += 1 }
RECURSIVE absorb_addition(_, _, _)
absorb_addition(state, to_absorb, i) ==
    IF ~(i < 8) THEN state
    ELSE absorb_addition(
             [state EXCEPT ![i] = GoldilocksField_add_assign(state[i], to_absorb[i])],
             to_absorb, i + 1)

\* AlgebraicRoundFunctionWithParams::absorb_into_state(state, to_absorb, mode)
absorb_into_state(state, to_absorb, mode) ==
    IF mode = "Overwrite" THEN absorb_overwrite(state, to_absorb, 0)
    ELSE absorb_addition(state, to_absorb, 0)

\* M::absorb(&mut state[i], &to_absorb[i]) of the absorption mode M
M_absorb(M, s, a) ==
    IF M = "Overwrite" THEN a ELSE GoldilocksField_add_assign(s, a)

\* AlgebraicRoundFunction::absorb_into_state::<M>: for i in 0..8 { M::absorb(..) }
RECURSIVE absorb_into_state_M(_, _, _, _)
absorb_into_state_M(M, state, to_absorb, i) ==
    IF i = 8 THEN state
    ELSE absorb_into_state_M(
             M, [state EXCEPT ![i] = M_absorb(M, state[i], to_absorb[i])],
             to_absorb, i + 1)

\* what a call that returns a batch gave back: a batch, or nothing after a panic
NoBatch == << >>
Returned(v) == [status |-> "ok", val |-> v]
Panicked(msg) == [status |-> msg, val |-> NoBatch]

\* the loop of inverse leaving a lane that has no inverse as it is
RECURSIVE inverse_loop_keeps_lane(_, _)
inverse_loop_keeps_lane(result, i) ==
    IF i = 16 THEN Returned(result)
    ELSE LET r == GoldilocksField_inverse(result[i])
         IN  IF ~r.some THEN inverse_loop_keeps_lane(result, i + 1)
             ELSE inverse_loop_keeps_lane([result EXCEPT ![i] = r.val], i + 1)

\* for i in 0..16 { result.0[i] = PrimeField::inverse(&result.0[i]).expect(..) },
\* from lane i on, then the return of result
RECURSIVE inverse_loop(_, _)
inverse_loop(result, i) ==
    IF i = 16 THEN Returned(result)
    ELSE LET r == GoldilocksField_inverse(result[i])
         IN  IF ~r.some THEN Panicked("panic: inverse must exist")
             ELSE inverse_loop([result EXCEPT ![i] = r.val], i + 1)

\* MixedGL::inverse(&self): works on a copy of self
inverse(self) == inverse_loop(self, 0)

\* ------------------------------------------------------------------------
\* State
\* ------------------------------------------------------------------------

VARIABLES
    this,     \* the receiver batch (av[0]): Lanes16 -> u64
    other,    \* the argument batch (av[1]): Lanes16 -> u64
    log,      \* the calls made so far: [op, this, other], the batches as they
              \* were when the call was made
    buf,      \* the scalar buffer handed to a reinterpretation call
    debug,    \* whether the build has debug assertions
    call,     \* the reinterpretation call made, "none" before it
    status,   \* how that call ended
    out,      \* what that call returned
    ret,      \* what the last batch operation that returns a value returned
    raw,      \* the raw-pointer butterfly calls: where the memory holding
              \* (this, other) starts, the two pointers, how the last call ended
              \* and the 8-lane calls it made
    sponge    \* the Poseidon2 sponge: its state and what was done to it

vars == <<this, other, log, buf, debug, call, status, out, ret, raw, sponge>>
ext_vars == <<raw, sponge>>
arith_vars == <<this, other, log, ret>>
cast_vars == <<buf, debug, call, status, out>>

\* longest sequence of batch operations explored
MaxSteps == 2

\* longest scalar buffer, in batches
MaxBatches == 2

\* ------------------------------------------------------------------------
\* Batch arithmetic: operations on (this, other)
\* ------------------------------------------------------------------------

\* Poseidon2Goldilocks: STATE_WIDTH = 12, AW (the rate) = 8, CW = 4
STATE_WIDTH == 12
RATE == 8

\* initial_state(): [GoldilocksField::ZERO; STATE_WIDTH]
initial_state == [i \in 0..(STATE_WIDTH - 1) |-> ZERO]

RawIdle == [base |-> 0, this_p |-> 0, other_p |-> 16, status |-> "none", trace |-> << >>]

\* the sponge right after initial_state(): state is the current state, prev the
\* state before the last call, op that call, len the length last given to
\* specialize_for_len, mode and block the arguments of the last absorb_into_state
SpongeIdle ==
    [state |-> initial_state, prev |-> initial_state, op |-> "initial_state",
     specialized |-> FALSE, len |-> ZERO, mode |-> "none",
     block |-> [i \in 0..(RATE - 1) |-> ZERO], absorbs |-> 0]

ExtIdle ==
    /\ raw = RawIdle
    /\ sponge = SpongeIdle

CastIdle ==
    /\ buf = NoBuf
    /\ debug = TRUE
    /\ call = "none"
    /\ status = "none"
    /\ out = NoBuf

Init ==
    /\ \/ \E s, d \in 0..(NVals - 1) :
            /\ this = Gen(s, d)
            /\ other = Gen(s + d, 1)
       \/ /\ this = batch_at(TestMem, 0)
          /\ other = batch_at(TestMem, 16)
    /\ log = << >>
    /\ ret = Panicked("none")
    /\ ExtIdle
    /\ CastIdle

\* a call that leaves this = t, other = o and returns r
StepRet(op, t, o, r) ==
    /\ Len(log) < MaxSteps
    /\ this' = t
    /\ other' = o
    /\ log' = Append(log, [op |-> op, this |-> this, other |-> other])
    /\ ret' = r
    /\ UNCHANGED <<cast_vars, ext_vars>>

Step(op, t, o) == StepRet(op, t, o, ret)

ToReduced == Step("to_reduced", to_reduced(this), other)

AddAssign == Step("add_assign", add_assign_impl(this, other), other)

SubAssign == Step("sub_assign", sub_assign_impl(this, other), other)

Negate == Step("negate", negate(this), other)

Butterfly1x1 == Step("butterfly_1x1", butterfly_1x1_impl(this), other)

Butterfly2x2 == Step("butterfly_2x2", butterfly_2x2_impl(this), other)

Butterfly4x4 == Step("butterfly_4x4", butterfly_4x4_impl(this), other)

\* butterfly_8x8_impl(av[0].0.as_ptr(), av[1].0.as_ptr())
Butterfly8x8 ==
    LET m == butterfly_8x8_impl(join(this, other), 0, 16)
    IN  Step("butterfly_8x8", batch_at(m, 0), batch_at(m, 16))

\* butterfly_16x16_impl(av[0].0.as_ptr(), av[1].0.as_ptr())
Butterfly16x16 ==
    LET m == butterfly_16x16_impl(join(this, other), 0, 16)
    IN  Step("butterfly_16x16", batch_at(m, 0), batch_at(m, 16))

Next ==
    \/ ToReduced
    \/ AddAssign
    \/ SubAssign
    \/ Negate

Spec == Init /\ [][Next]_vars

NextButterfly ==
    \/ Butterfly1x1
    \/ Butterfly2x2
    \/ Butterfly4x4
    \/ Butterfly8x8
    \/ Butterfly16x16

SpecButterfly == Init /\ [][NextButterfly]_vars

\* ------------------------------------------------------------------------
\* All nine SIMD operations, from canonical receivers
\* ------------------------------------------------------------------------

\* the canonical values of Vals (those below p)
CanonVals == SelectSeq(Vals, LAMBDA v : lt(v, ORDER))

\* batch of canonical lanes: lane i holds CanonVals[s + d * i]
GenCanon(s, d) ==
    [i \in Lanes16 |-> CanonVals[((s + d * i) % Len(CanonVals)) + 1]]

\* batch for a stride-st butterfly: pair number j holds CanonVals[k + j] in its
\* first (u) lane and Vals[k + j] in its second (v) lane
GenPairs(st, k) ==
    [i \in Lanes16 |->
        LET blk == i \div (2 * st)
            off == i % (2 * st)
            j == blk * st + (off % st)
        IN  IF off < st THEN CanonVals[((k + j) % Len(CanonVals)) + 1]
            ELSE Vals[((k + j) % NVals) + 1]]

\* canonical receiver with arbitrary argument (every combination of a canonical
\* and an arbitrary value of Vals on some lane), canonical u with arbitrary v
\* inside one batch for each stride, and canonical receiver with canonical
\* argument
InitCanon ==
    /\ \/ \E k \in {0, 16, 32, 48, 64} :
            /\ this = GenCanon(k, 1)
            /\ other = Gen(k, 1)
       \/ \E st \in {1, 2, 4}, k \in {8 * n : n \in 0..9} :
            /\ this = GenPairs(st, k)
            /\ other = Gen(k, 1)
       \/ \E k \in 0..3 :
            /\ this = GenCanon(k, 1)
            /\ other = GenCanon(k + 3, 2)
    /\ log = << >>
    /\ ret = Panicked("none")
    /\ ExtIdle
    /\ CastIdle

NextCanon ==
    \/ ToReduced
    \/ AddAssign
    \/ SubAssign
    \/ Negate
    \/ Butterfly1x1
    \/ Butterfly2x2
    \/ Butterfly4x4
    \/ Butterfly8x8
    \/ Butterfly16x16

SpecCanon == InitCanon /\ [][NextCanon]_vars

\* ------------------------------------------------------------------------
\* Raw-pointer butterfly calls on the memory holding (this, other)
\* ------------------------------------------------------------------------

\* byte addresses the 32-word memory can start at
Bases == {0, 8, 32, 64}

\* the memory starts at any of Bases; one pointer is given the first batch and
\* the other the second, in either order
InitRaw ==
    /\ \E s \in 0..(NVals - 1), d \in {1, 5} :
            /\ this = Gen(s, d)
            /\ other = Gen(s + d, 3)
    /\ log = << >>
    /\ ret = Panicked("none")
    /\ sponge = SpongeIdle
    /\ \E b \in Bases, p \in {0, 16} :
            raw = [RawIdle EXCEPT !.base = b, !.this_p = p, !.other_p = 16 - p]
    /\ buf = NoBuf
    /\ debug \in BOOLEAN
    /\ call = "none"
    /\ status = "none"
    /\ out = NoBuf

\* a raw call that ended as c; nothing runs after a panic
RawStep(op, c) ==
    /\ Len(log) < MaxSteps
    /\ raw.status # "panic: debug_assert align"
    /\ this' = batch_at(c.mem, 0)
    /\ other' = batch_at(c.mem, 16)
    /\ log' = Append(log, [op |-> op, this |-> this, other |-> other])
    /\ raw' = [raw EXCEPT !.status = c.status, !.trace = c.trace]
    /\ UNCHANGED <<ret, sponge, cast_vars>>

\* butterfly_8x8_impl(this, other) on the first or the second half of the buffers
RawButterfly8x8 ==
    \E h \in {0, 8} :
        RawStep("butterfly_8x8",
                call_butterfly_8x8(join(this, other), raw.base, raw.this_p + h,
                                   raw.other_p + h, debug))

\* butterfly_16x16_impl(this, other)
RawButterfly16x16 ==
    RawStep("butterfly_16x16",
            call_butterfly_16x16(join(this, other), raw.base, raw.this_p,
                                 raw.other_p, debug))

NextRaw ==
    \/ RawButterfly8x8
    \/ RawButterfly16x16

SpecRaw == InitRaw /\ [][NextRaw]_vars

\* ------------------------------------------------------------------------
\* Batched multiplication, squaring and doubling
\* ------------------------------------------------------------------------

\* the scalars handed to mul_all_by_base: EPSILON and 2^64 - 1
Scalars == {Vals[3], Vals[11]}

InitMul ==
    /\ \E s \in 0..(NVals - 1) :
            /\ this = Gen(s, 4)
            /\ other = Gen(s + 4, 3)
    /\ log = << >>
    /\ ret = Panicked("none")
    /\ ExtIdle
    /\ CastIdle

MulAssign == Step("mul_assign", mul_assign(this, other), other)

MulAllByBase ==
    \E s \in Scalars :
        /\ Len(log) < MaxSteps
        /\ this' = mul_all_by_base(this, s)
        /\ log' = Append(log, [op |-> "mul_all_by_base", this |-> this,
                               other |-> other, base |-> s])
        /\ UNCHANGED <<other, ret, cast_vars, ext_vars>>

Square == Step("square", square(this), other)

Double == Step("double", double(this), other)

NextMul ==
    \/ MulAssign
    \/ MulAllByBase
    \/ Square
    \/ Double

SpecMul == InitMul /\ [][NextMul]_vars

\* ------------------------------------------------------------------------
\* The Poseidon2 sponge between two permutations
\* ------------------------------------------------------------------------

\* most absorb_into_state calls explored
MaxAbsorbs == 2

\* lengths handed to specialize_for_len, as `len as u64`: 0, 1, 2^16, 2^32 - 1
Lens == {<<0, 0, 0, 0>>, <<0, 0, 0, 1>>, <<0, 0, 1, 0>>, <<0, 0, 65535, 65535>>}

\* blocks absorbed: 8 consecutive values of Vals from the s-th on
Block(s) == [i \in 0..(RATE - 1) |-> Vals[((s + i) % NVals) + 1]]

InitSponge ==
    /\ this = Gen(0, 0)
    /\ other = Gen(0, 0)
    /\ log = << >>
    /\ ret = Panicked("none")
    /\ raw = RawIdle
    /\ sponge = SpongeIdle
    /\ CastIdle

SpecializeForLen ==
    \E len \in Lens :
        /\ ~sponge.specialized
        /\ sponge' = [sponge EXCEPT !.state = specialize_for_len(len, sponge.state),
                                    !.prev = sponge.state,
                                    !.op = "specialize_for_len",
                                    !.specialized = TRUE,
                                    !.len = len]
        /\ UNCHANGED <<arith_vars, cast_vars, raw>>

\* one absorb_into_state call that leaves the state s
Absorbed(mode, blk, s) ==
    /\ sponge.absorbs < MaxAbsorbs
    /\ sponge' = [sponge EXCEPT !.state = s,
                                !.prev = sponge.state,
                                !.op = "absorb_into_state",
                                !.mode = mode,
                                !.block = blk,
                                !.absorbs = sponge.absorbs + 1]
    /\ UNCHANGED <<arith_vars, cast_vars, raw>>

\* absorb_into_state of AlgebraicRoundFunctionWithParams
AbsorbIntoState ==
    \E mode \in {"Overwrite", "Addition"}, s \in {0, 4, 8} :
        Absorbed(mode, Block(s), absorb_into_state(sponge.state, Block(s), mode))

\* absorb_into_state::<M> of AlgebraicRoundFunction
AbsorbIntoStateM ==
    \E M \in {"Overwrite", "Addition"}, s \in {0, 4, 8} :
        Absorbed(M, Block(s), absorb_into_state_M(M, sponge.state, Block(s), 0))

NextSponge ==
    \/ SpecializeForLen
    \/ AbsorbIntoState
    \/ AbsorbIntoStateM

SpecSponge == InitSponge /\ [][NextSponge]_vars

\* ------------------------------------------------------------------------
\* Batched inversion
\* ------------------------------------------------------------------------

\* the values of Vals that are not the additive identity
NonZeroVals == SelectSeq(Vals, LAMBDA v : ~GoldilocksField_is_zero(v))

\* batch of non-zero lanes: lane i holds NonZeroVals[s + d * i]
GenNonZero(s, d) ==
    [i \in Lanes16 |-> NonZeroVals[((s + d * i) % Len(NonZeroVals)) + 1]]

\* receivers: batches without a zero lane, and the same with one lane set to a
\* representation of zero (0 or p)
InitInverse ==
    /\ \E s \in 0..(Len(NonZeroVals) - 1), d \in 0..2 :
         \/ this = GenNonZero(s, d)
         \/ \E k \in {0, 7, 15}, z \in {ZERO, ORDER} :
                this = [GenNonZero(s, d) EXCEPT ![k] = z]
    /\ other = Gen(0, 0)
    /\ log = << >>
    /\ ret = Panicked("none")
    /\ ExtIdle
    /\ CastIdle

Inverse == StepRet("inverse", this, other, inverse(this))

NextInverse ==
    \/ Inverse
    \/ ToReduced

SpecInverse == InitInverse /\ [][NextInverse]_vars

\* ------------------------------------------------------------------------
\* Reinterpretation calls on a scalar buffer
\* ------------------------------------------------------------------------

\* byte addresses a buffer of u64 can start at
Addrs == {0, 8, 32, 64, 128}

InitCast ==
    /\ this = Gen(0, 0)
    /\ other = Gen(0, 0)
    /\ log = << >>
    /\ ret = Panicked("none")
    /\ ExtIdle
    /\ \E n \in 0..(MaxBatches * SIZE_FACTOR + 1), extra \in {0, 1, SIZE_FACTOR}, p \in Addrs :
            buf = [ty |-> "GoldilocksField", ptr |-> p, len |-> n, cap |-> n + extra]
    /\ debug \in BOOLEAN
    /\ call = "none"
    /\ status = "none"
    /\ out = NoBuf

SliceFromBaseSlice ==
    /\ call = "none"
    /\ LET r == slice_from_base_slice(buf, debug)
       IN  /\ status' = r[1]
           /\ out' = r[2]
    /\ call' = "slice_from_base_slice"
    /\ UNCHANGED <<buf, debug, arith_vars, ext_vars>>

VecFromBaseVec ==
    /\ call = "none"
    /\ LET r == vec_from_base_vec(buf, debug)
       IN  /\ status' = r[1]
           /\ out' = r[2]
    /\ call' = "vec_from_base_vec"
    /\ UNCHANGED <<buf, debug, arith_vars, ext_vars>>

\* slice_into_base_slice applied to the slice slice_from_base_slice returned
SliceIntoBaseSlice ==
    /\ call = "slice_from_base_slice"
    /\ status = "ok"
    /\ out' = slice_into_base_slice(out)
    /\ call' = "slice_into_base_slice"
    /\ UNCHANGED <<buf, debug, status, arith_vars, ext_vars>>

\* vec_into_base_vec applied to the Vec vec_from_base_vec returned
VecIntoBaseVec ==
    /\ call = "vec_from_base_vec"
    /\ status = "ok"
    /\ out' = vec_into_base_vec(out)
    /\ call' = "vec_into_base_vec"
    /\ UNCHANGED <<buf, debug, status, arith_vars, ext_vars>>

NextCast ==
    \/ SliceFromBaseSlice
    \/ VecFromBaseVec
    \/ SliceIntoBaseSlice
    \/ VecIntoBaseVec

SpecCast == InitCast /\ [][NextCast]_vars

\* ------------------------------------------------------------------------
\* Reference arithmetic: exact naturals as 5-limb tuples (80 bits), wide
\* enough for any sum of three u64, so nothing below wraps
\* ------------------------------------------------------------------------

Last == log[Len(log)]
LastOp(op) == Len(log) > 0 /\ Last.op = op
LastTwoOps(op) == Len(log) > 1 /\ Last.op = op /\ log[Len(log) - 1].op = op

\* ------------------------------------------------------------------------
\* Claims
\* ------------------------------------------------------------------------

\* C1: after add_assign every result lane r satisfies r == a + b (mod p) for all
\* 64-bit a, b, i.e. r is, as a field element, the sum of (a mod p) and (b mod p).
C1_AddAssignCongruent ==
    LastOp("add_assign") =>
        \A i \in Lanes16 :
            LET a == Last.this[i]
                b == Last.other[i]
            IN  /\ congruent(wide(this[i]), plus(wide(a), wide(b)))
                /\ canon(this[i]) = mod_p(plus(canon(a), canon(b)))

\* an addition of two non-canonical lanes whose 64-bit sum wrapped
C1_Witness ==
    /\ LastOp("add_assign")
    /\ \E i \in Lanes16 :
        /\ ~is_canonical(Last.this[i])
        /\ ~is_canonical(Last.other[i])
        /\ lt(this[i], Last.this[i])

\* C2 as stated: for all 64-bit a, b, also a >= p, the word add_assign stores is
\* bit-for-bit the canonical sum ((a mod p) + (b mod p)) mod p, in [0, p).
C2_AddAssignBitExact ==
    LastOp("add_assign") =>
        \A i \in Lanes16 :
            /\ wide(this[i]) = mod_p(plus(canon(Last.this[i]), canon(Last.other[i])))
            /\ is_canonical(this[i])

\* C2 amended: the stored word is bit-for-bit the canonical sum exactly when
\* a + (b mod p) < 2p, which covers every canonical left operand a < p; when
\* a + (b mod p) >= 2p (only possible with a >= p) it is the canonical sum plus p.
C2_AddAssignBitExactBelow2p ==
    LastOp("add_assign") =>
        \A i \in Lanes16 :
            LET a == Last.this[i]
                b == Last.other[i]
                c == mod_p(plus(canon(a), canon(b)))
            IN  /\ lt(plus(wide(a), canon(b)), TwoP) =>
                    wide(this[i]) = c /\ is_canonical(this[i])
                /\ ~lt(plus(wide(a), canon(b)), TwoP) =>
                    wide(this[i]) = plus(c, P) /\ ~is_canonical(a)
                /\ is_canonical(a) => wide(this[i]) = c

\* a canonical left operand plus a non-canonical right operand with a wrapped sum,
\* and a lane where a >= p left a non-canonical word
C2_Witness ==
    /\ LastOp("add_assign")
    /\ \E i \in Lanes16 :
        /\ is_canonical(Last.this[i])
        /\ ~is_canonical(Last.other[i])
        /\ ~lt(plus(wide(Last.this[i]), canon(Last.other[i])), P)
    /\ \E i \in Lanes16 : ~is_canonical(this[i])

\* C3: after sub_assign every result lane r satisfies r == a - b (mod p): with
\* b' = b mod p, r = a - b' when a >= b' and r = a - b' + p when a < b'.
C3_SubAssignCongruent ==
    LastOp("sub_assign") =>
        \A i \in Lanes16 :
            LET a == Last.this[i]
                b == Last.other[i]
                r == this[i]
            IN  /\ congruent(plus(wide(r), wide(b)), wide(a))
                /\ lt(wide(a), canon(b)) => plus(wide(r), canon(b)) = plus(wide(a), P)
                /\ ~lt(wide(a), canon(b)) => plus(wide(r), canon(b)) = wide(a)

\* a subtraction with a non-canonical right operand that needed the correction,
\* and one with a non-canonical left operand
C3_Witness ==
    /\ LastOp("sub_assign")
    /\ \E i \in Lanes16 :
        /\ ~is_canonical(Last.other[i])
        /\ lt(wide(Last.this[i]), canon(Last.other[i]))
    /\ \E i \in Lanes16 : ~is_canonical(Last.this[i])

\* C4: to_reduced stores exactly x mod p in every lane (x - p when x >= p, x
\* when x < p), so every lane is in [0, p); a second to_reduced changes nothing.
C4_ToReducedCanonical ==
    /\ LastOp("to_reduced") =>
        \A i \in Lanes16 :
            LET x == Last.this[i]
            IN  /\ wide(this[i]) = canon(x)
                /\ is_canonical(x) => this[i] = x
                /\ ~is_canonical(x) => plus(wide(this[i]), P) = wide(x)
                /\ is_canonical(this[i])
    /\ LastTwoOps("to_reduced") => this = Last.this

\* to_reduced applied twice to a batch holding a lane >= p and a lane < p
C4_Witness ==
    /\ LastTwoOps("to_reduced")
    /\ \E i \in Lanes16 : ~is_canonical(log[Len(log) - 1].this[i])
    /\ \E i \in Lanes16 : is_canonical(log[Len(log) - 1].this[i])

\* C5: for every 64-bit x, also x >= p, negate leaves a zero lane zero and
\* otherwise stores a lane congruent to -x modulo p (scalar field negation of x).
C5_NegateIsFieldNegation ==
    LastOp("negate") =>
        \A i \in Lanes16 :
            LET x == Last.this[i]
            IN  /\ x = ZERO => this[i] = ZERO
                /\ congruent(plus(wide(this[i]), wide(x)), Zero5)

\* C6: negate applied twice gives a lane congruent to x modulo p for every
\* 64-bit x, and negate of a zero lane is zero.
C6_NegateInvolution ==
    /\ LastTwoOps("negate") =>
        \A i \in Lanes16 : canon(this[i]) = canon(log[Len(log) - 1].this[i])
    /\ LastOp("negate") =>
        \A i \in Lanes16 : Last.this[i] = ZERO => this[i] = ZERO

\* negate applied twice to a batch with a lane above p, a zero lane and a
\* canonical non-zero lane
C6_Witness ==
    /\ LastTwoOps("negate")
    /\ \E i \in Lanes16 : lt(ORDER, log[Len(log) - 1].this[i])
    /\ \E i \in Lanes16 : log[Len(log) - 1].this[i] = ZERO
    /\ \E i \in Lanes16 : /\ is_canonical(log[Len(log) - 1].this[i])
                          /\ log[Len(log) - 1].this[i] # ZERO

\* C7: after butterfly_16x16_impl(U, V), lane i of the first buffer is congruent
\* to U[i] + V[i] and lane i of the second buffer to U[i] - V[i] (mod p), for
\* every i in [0, 16), both computed from the original U[i] and V[i].
C7_Butterfly16SumDiff ==
    LastOp("butterfly_16x16") =>
        \A i \in Lanes16 :
            LET u == Last.this[i]
                v == Last.other[i]
            IN  /\ congruent(wide(this[i]), plus(wide(u), wide(v)))
                /\ congruent(plus(wide(other[i]), wide(v)), wide(u))

\* a 16-lane butterfly over non-canonical operands in both 8-lane halves
C7_Witness ==
    /\ LastOp("butterfly_16x16")
    /\ \E i \in 0..7 : ~is_canonical(Last.this[i]) /\ ~is_canonical(Last.other[i])
    /\ \E i \in 8..15 : ~is_canonical(Last.this[i]) /\ ~is_canonical(Last.other[i])
    /\ \E i \in 8..15 : Last.this[i] # Last.this[i - 8]

\* C8 as stated: with u = words 0..15 and v = words 16..31, the 16-lane butterfly
\* stores u[i] - v[i] at position i and u[i] + v[i] at position i + 16, each
\* reduced into [0, p).
C8_DiffFirstSumSecond ==
    LastOp("butterfly_16x16") =>
        \A i \in Lanes16 :
            LET u == Last.this[i]
                v == Last.other[i]
            IN  /\ congruent(plus(wide(this[i]), wide(v)), wide(u))
                /\ congruent(wide(other[i]), plus(wide(u), wide(v)))
                /\ is_canonical(this[i])
                /\ is_canonical(other[i])

\* C8 amended: the 16-lane butterfly stores u[i] + v[i] at position i and
\* u[i] - v[i] at position i + 16; for a canonical u[i] both words are the
\* canonical results in [0, p), for any u[i] they are congruent to them.
C8_SumFirstDiffSecond ==
    LastOp("butterfly_16x16") =>
        \A i \in Lanes16 :
            LET u == Last.this[i]
                v == Last.other[i]
                s == mod_p(plus(canon(u), canon(v)))
                d == mod_p(wrapping_sub(plus(canon(u), P), canon(v)))
            IN  /\ canon(this[i]) = s
                /\ canon(other[i]) = d
                /\ is_canonical(u) =>
                    /\ wide(this[i]) = s
                    /\ wide(other[i]) = d

\* the butterfly applied to the array of test_mixedgl_butterfly16x16
C8_Witness ==
    /\ Len(log) = 1
    /\ LastOp("butterfly_16x16")
    /\ Last.this = batch_at(TestMem, 0)
    /\ Last.other = batch_at(TestMem, 16)

\* the lanes a butterfly of stride s pairs: (k + j, k + j + s) for k a multiple
\* of 2s and j < s
Pairs(s) == {<<k + j, k + j + s>> : k \in {m \in Lanes16 : m % (2 * s) = 0}, j \in 0..(s - 1)}

\* lane i of the batch `after` is x[lo] + x[hi] at lo and x[lo] - x[hi] at hi
PairSumDiff(x, after, s) ==
    \A pr \in Pairs(s) :
        /\ congruent(wide(after[pr[1]]), plus(wide(x[pr[1]]), wide(x[pr[2]])))
        /\ congruent(plus(wide(after[pr[2]]), wide(x[pr[2]])), wide(x[pr[1]]))

\* the input shuffles U, V read every lane exactly once, in pairs of stride s, and
\* the output shuffles put sum k (index k of res1) at lane U[k] and difference k
\* (index 8 + k of the concatenation res1 ++ res2) at lane V[k]
ShufflesMatch(U, V, OUT1, OUT2, s) ==
    LET outx == OUT1 \o OUT2
    IN  /\ {U[k] : k \in 1..8} \cup {V[k] : k \in 1..8} = Lanes16
        /\ Cardinality({U[k] : k \in 1..8}) = 8
        /\ Cardinality({V[k] : k \in 1..8}) = 8
        /\ {<<U[k], V[k]>> : k \in 1..8} = Pairs(s)
        /\ \A k \in 1..8 : /\ outx[U[k] + 1] = k - 1
                           /\ outx[V[k] + 1] = 8 + k - 1

\* C9: for each stride s in {1, 2, 4} the in-batch butterfly leaves x[k+j] +
\* x[k+j+s] in lane k+j and x[k+j] - x[k+j+s] in lane k+j+s (mod p), for every
\* block start k (a multiple of 2s) and j < s; its input shuffles use every lane
\* once and its output shuffles return each result to its operand's lane.
C9_StrideButterflies ==
    /\ LastOp("butterfly_1x1") =>
        /\ PairSumDiff(Last.this, this, 1)
        /\ ShufflesMatch(BF1_U, BF1_V, BF1_OUT1, BF1_OUT2, 1)
    /\ LastOp("butterfly_2x2") =>
        /\ PairSumDiff(Last.this, this, 2)
        /\ ShufflesMatch(BF2_U, BF2_V, BF2_OUT1, BF2_OUT2, 2)
    /\ LastOp("butterfly_4x4") =>
        /\ PairSumDiff(Last.this, this, 4)
        /\ ShufflesMatch(BF4_U, BF4_V, BF4_OUT1, BF4_OUT2, 4)
    /\ Len(log) > 0 /\ Last.op \in {"butterfly_1x1", "butterfly_2x2", "butterfly_4x4"} =>
        other = Last.other

\* a stride-2 butterfly of a batch whose 16 lanes are not all equal, with a
\* non-canonical pair among them
C9_Witness ==
    /\ LastOp("butterfly_2x2")
    /\ \E pr \in Pairs(2) : /\ ~is_canonical(Last.this[pr[1]])
                            /\ ~is_canonical(Last.this[pr[2]])
                            /\ Last.this[pr[1]] # Last.this[pr[2]]
    /\ Last.this[14] # Last.this[15]

\* C10: slice_from_base_slice and vec_from_base_vec panic, with or without debug
\* assertions, whenever the scalar buffer holds fewer than 16 elements, and
\* return no batch buffer at all for it.
C10_ShortInputPanics ==
    call # "none" /\ buf.len < SIZE_FACTOR =>
        /\ status = "panic: too small input size to cast"
        /\ out = NoBuf

\* slice_from_base_slice called on 15 aligned elements in a build without debug
\* assertions
C10_Witness ==
    /\ call = "slice_from_base_slice"
    /\ buf.len = SIZE_FACTOR - 1
    /\ buf.ptr % ALIGN = 0
    /\ ~debug

\* the buffer meets the documented preconditions of the reinterpretation: 64-byte
\* aligned, length a multiple of 16 and, for a Vec, capacity a multiple of 16
WellFormed(b, owning) ==
    /\ b.ptr % ALIGN = 0
    /\ b.len % SIZE_FACTOR = 0
    /\ owning => b.cap % SIZE_FACTOR = 0

IsVecCall == call \in {"vec_from_base_vec", "vec_into_base_vec"}
IsIntoCall == call \in {"slice_into_base_slice", "vec_into_base_vec"}

\* the scalar buffer that came back is the one that went in
SameBuffer ==
    /\ out.ty = "GoldilocksField"
    /\ out.len = buf.len
    /\ IsVecCall => out.cap = buf.cap
    /\ \A i \in 0..(buf.len - 1) : elem_addr(out, i) = elem_addr(buf, i)

\* C11 as stated: for an aligned scalar buffer whose length is any multiple of 16
\* (capacity too, for a Vec), scalar -> vector -> scalar succeeds and is the
\* identity: same length, same capacity, same elements in the same order.
C11_RoundTripEveryMultiple ==
    call # "none" /\ WellFormed(buf, IsVecCall) =>
        /\ status = "ok"
        /\ IsIntoCall => SameBuffer

\* C11 amended: the same for every positive multiple of 16; the empty buffer
\* (length 0) is refused with the panic "too small input size to cast".
C11_RoundTripPositiveMultiple ==
    /\ call # "none" /\ WellFormed(buf, IsVecCall) /\ buf.len >= SIZE_FACTOR =>
        /\ status = "ok"
        /\ IsIntoCall => SameBuffer
    /\ call # "none" /\ buf.len = 0 =>
        /\ status = "panic: too small input size to cast"
        /\ out = NoBuf

\* a Vec of two batches with spare capacity, converted and converted back in a
\* build without debug assertions
C11_Witness ==
    /\ call = "vec_into_base_vec"
    /\ WellFormed(buf, TRUE)
    /\ buf.len = 2 * SIZE_FACTOR
    /\ buf.cap > buf.len
    /\ ~debug

\* C12: inverse is all-or-nothing. If some lane of the receiver is the additive
\* identity the call panics and returns no batch; otherwise it returns a batch
\* whose lane i is the scalar inverse of lane i (their product is ONE); the
\* receiver is the same batch after the call in both cases.
C12_InverseAllOrNothing ==
    LastOp("inverse") =>
        /\ this = Last.this
        /\ other = Last.other
        /\ IF \E i \in Lanes16 : GoldilocksField_is_zero(this[i])
           THEN /\ ret.status = "panic: inverse must exist"
                /\ ret.val = NoBatch
           ELSE /\ ret.status = "ok"
                /\ DOMAIN ret.val = Lanes16
                /\ \A i \in Lanes16 :
                     /\ ret.val[i] = GoldilocksField_inverse(this[i]).val
                     /\ GoldilocksField_mul_assign(this[i], ret.val[i]) = ONE

\* the panic happens late: the only zero lane of the receiver is the last one,
\* reached after 15 lanes of the copy were already inverted
C12_Witness ==
    /\ LastOp("inverse")
    /\ ret.status = "panic: inverse must exist"
    /\ GoldilocksField_is_zero(this[15])
    /\ \A i \in 0..14 : ~GoldilocksField_is_zero(this[i])

\* the batches the run started from
Start == IF Len(log) = 0 THEN [this |-> this, other |-> other] ELSE log[1]

AllCanonical(x) == \A i \in Lanes16 : is_canonical(x[i])

\* r is the canonical representative of a + b, of a - b
IsSum(r, a, b) == is_canonical(r) /\ congruent(wide(r), plus(wide(a), wide(b)))
IsDiff(r, a, b) == is_canonical(r) /\ congruent(plus(wide(r), wide(b)), wide(a))

\* the in-batch butterfly of stride s gives canonical sum and difference for every
\* pair whose first lane was canonical
PairsCanonical(x, after, s) ==
    \A pr \in Pairs(s) :
        is_canonical(x[pr[1]]) =>
            /\ IsSum(after[pr[1]], x[pr[1]], x[pr[2]])
            /\ IsDiff(after[pr[2]], x[pr[1]], x[pr[2]])

\* C13: canonical form is preserved. Where the left operand lane is canonical
\* and the right one any 64-bit value, the lane that add_assign, sub_assign,
\* negate, to_reduced and each butterfly leaves is canonical and is the exact
\* sum, difference or negation modulo p; and a run that starts from canonical
\* batches has every lane of both batches canonical after every operation.
C13_CanonicalPreserved ==
    /\ LastOp("add_assign") =>
        \A i \in Lanes16 : is_canonical(Last.this[i]) =>
            IsSum(this[i], Last.this[i], Last.other[i])
    /\ LastOp("sub_assign") =>
        \A i \in Lanes16 : is_canonical(Last.this[i]) =>
            IsDiff(this[i], Last.this[i], Last.other[i])
    /\ LastOp("negate") =>
        \A i \in Lanes16 : is_canonical(Last.this[i]) =>
            IsDiff(this[i], ZERO, Last.this[i])
    /\ LastOp("to_reduced") =>
        \A i \in Lanes16 : is_canonical(Last.this[i]) => this[i] = Last.this[i]
    /\ LastOp("butterfly_1x1") => PairsCanonical(Last.this, this, 1)
    /\ LastOp("butterfly_2x2") => PairsCanonical(Last.this, this, 2)
    /\ LastOp("butterfly_4x4") => PairsCanonical(Last.this, this, 4)
    /\ Len(log) > 0 /\ Last.op \in {"butterfly_8x8", "butterfly_16x16"} =>
        \A i \in 0..(IF Last.op = "butterfly_8x8" THEN 7 ELSE 15) :
            is_canonical(Last.this[i]) =>
                /\ IsSum(this[i], Last.this[i], Last.other[i])
                /\ IsDiff(other[i], Last.this[i], Last.other[i])
    /\ AllCanonical(Start.this) /\ AllCanonical(Start.other) =>
        AllCanonical(this) /\ AllCanonical(other)

\* a subtraction that borrows and then an addition that wraps past 2^64, on a
\* canonical receiver with non-canonical argument lanes
C13_Witness ==
    /\ Len(log) = 2
    /\ AllCanonical(Start.this)
    /\ log[1].op = "sub_assign"
    /\ Last.op = "add_assign"
    /\ \E i \in Lanes16 : /\ ~is_canonical(Last.other[i])
                          /\ lt(log[1].this[i], Tail(canon(Last.other[i])))
                          /\ lt(this[i], Last.this[i])

\* the batch x with the two lanes of every stride-s pair exchanged
Exchanged(x, s) == [i \in Lanes16 |-> IF i % (2 * s) < s THEN x[i + s] ELSE x[i - s]]

\* after the in-batch butterfly of stride s on x, the first lane of every pair is
\* the lane add_assign_impl gives for (u, v) and the second lane the lane
\* sub_assign_impl gives for (u, v), bit for bit
SameAsAddSub(x, after, s) ==
    LET sums == add_assign_impl(x, Exchanged(x, s))
        diffs == sub_assign_impl(Exchanged(x, s), x)
    IN  \A pr \in Pairs(s) : /\ after[pr[1]] = sums[pr[1]]
                             /\ after[pr[2]] = diffs[pr[2]]

\* C14: every butterfly variant computes the two-stage reduced add/sub of the
\* plain batch operations. For all 64-bit lanes u, v the sum lane a butterfly
\* writes is bit-identical to the lane of add_assign_impl for (u, v) and the
\* difference lane bit-identical to the lane of sub_assign_impl for (u, v), both
\* from the original u and v (8-lane and 16-lane raw-pointer variants, and the
\* in-batch strides 1, 2, 4).
C14_ButterflyIsAddSub ==
    /\ LastOp("butterfly_8x8") =>
        /\ \A i \in 0..7 :
            /\ this[i] = add_assign_impl(Last.this, Last.other)[i]
            /\ other[i] = sub_assign_impl(Last.this, Last.other)[i]
        /\ \A i \in 8..15 : this[i] = Last.this[i] /\ other[i] = Last.other[i]
    /\ LastOp("butterfly_16x16") =>
        /\ this = add_assign_impl(Last.this, Last.other)
        /\ other = sub_assign_impl(Last.this, Last.other)
    /\ LastOp("butterfly_1x1") => SameAsAddSub(Last.this, this, 1)
    /\ LastOp("butterfly_2x2") => SameAsAddSub(Last.this, this, 2)
    /\ LastOp("butterfly_4x4") => SameAsAddSub(Last.this, this, 4)

\* an 8-lane butterfly and a stride-4 butterfly one after the other, the second
\* with a pair whose u is not canonical and whose sum lane, like the one of
\* add_assign_impl, is not canonical either, and a pair whose v is not canonical
C14_Witness ==
    /\ Len(log) = 2
    /\ log[1].op = "butterfly_8x8"
    /\ Last.op = "butterfly_4x4"
    /\ \E pr \in Pairs(4) : /\ ~is_canonical(Last.this[pr[1]])
                            /\ ~is_canonical(this[pr[1]])
    /\ \E pr \in Pairs(4) : ~is_canonical(Last.this[pr[2]])

\* the memory before the last call
MemBefore == join(Last.this, Last.other)

\* how often word w is stored to by the calls of trace tr
StoreCount(tr, w) ==
    Cardinality({<<c, k>> \in (1..Len(tr)) \X (1..16) : tr[c].stores[k] = w})

\* the memory mem with every word other than lane i of the two buffers set to v
OnlyLane(mem, i, v) ==
    [w \in Words32 |-> IF w \in {raw.this_p + i, raw.other_p + i} THEN mem[w] ELSE v]

\* C15: butterfly_16x16_impl is two chained butterfly_8x8_impl calls at element
\* offsets 0 and 8 of both buffers. When both pointers are 64-byte aligned, the
\* assertions of both inner calls hold; the first call stores to lanes 0..7 and
\* the second to lanes 8..15 of the buffers, every lane of each buffer exactly
\* once; and output lane i of either buffer depends on input lane i of the two
\* buffers only.
C15_TwoChained8x8 ==
    LastOp("butterfly_16x16")
    /\ is_aligned(addr(raw.base, raw.this_p))
    /\ is_aligned(addr(raw.base, raw.other_p)) =>
        LET t == raw.this_p
            o == raw.other_p
            m == join(this, other)
        IN  /\ raw.status = "ok"
            /\ Len(raw.trace) = 2
            /\ \A c \in 1..2 :
                /\ raw.trace[c].this = addr(raw.base, t) + SIZE_OF_U64 * 8 * (c - 1)
                /\ raw.trace[c].other = addr(raw.base, o) + SIZE_OF_U64 * 8 * (c - 1)
                /\ raw.trace[c].aligned
                /\ {raw.trace[c].stores[k] : k \in 1..16} =
                     {t + 8 * (c - 1) + j : j \in Lanes8} \cup
                     {o + 8 * (c - 1) + j : j \in Lanes8}
            /\ \A w \in Words32 : StoreCount(raw.trace, w) = 1
            /\ m = butterfly_8x8_impl(butterfly_8x8_impl(MemBefore, t, o), t + 8, o + 8)
            /\ \A i \in Lanes16 :
                LET alone == call_butterfly_16x16(
                                 OnlyLane(MemBefore, i, <<65535, 65535, 65535, 65535>>),
                                 raw.base, t, o, debug).mem
                IN  /\ alone[t + i] = m[t + i]
                    /\ alone[o + i] = m[o + i]

\* a 16-lane call through aligned pointers in a build with debug assertions, the
\* first pointer at the second batch, on a memory that does not start at
\* address 0 and whose two halves hold different lanes
C15_Witness ==
    /\ LastOp("butterfly_16x16")
    /\ debug
    /\ raw.base = 64
    /\ raw.this_p = 16
    /\ raw.status = "ok"
    /\ \E i \in 0..7 : MemBefore[i] # MemBefore[i + 8]
    /\ \E i \in Lanes16 : this[i] # Last.this[i]

IsFromCall == call \in {"slice_from_base_slice", "vec_from_base_vec"}

DebugAssertPanics ==
    {"panic: debug_assert len", "panic: debug_assert align", "panic: debug_assert capacity"}

C17_LaneWiseMul ==
    /\ LastOp("mul_assign") =>
        \A i \in Lanes16 :
            /\ this[i] = GoldilocksField_mul_assign(Last.this[i], Last.other[i])
            /\ is_canonical(this[i])
    /\ LastOp("mul_all_by_base") =>
        this = mul_assign(Last.this, constant(Last.base))
    /\ LastOp("square") =>
        this = mul_assign(Last.this, Last.this)
    /\ LastOp("double") =>
        /\ this = add_assign_impl(Last.this, Last.this)
        /\ \A i \in Lanes16 :
            congruent(wide(this[i]), plus(wide(Last.this[i]), wide(Last.this[i])))
    /\ Len(log) > 0 => other = Last.other

\* a lane-wise product of two batches whose lanes differ from lane to lane, with
\* a non-canonical factor on each side, after an earlier squaring
C17_Witness ==
    /\ Len(log) = 2
    /\ log[1].op = "square"
    /\ Last.op = "mul_assign"
    /\ \E i \in Lanes16 : ~is_canonical(Last.other[i]) /\ Last.this[i] \notin {ZERO, ONE}
    /\ \E i, j \in Lanes16 : this[i] # this[j] /\ Last.this[i] # Last.this[j]
    /\ \E i \in Lanes16 : ~is_canonical(log[1].this[i])

\* C18: in the 12-element sponge state absorb_into_state (either mode, either
\* implementation) changes nothing but state[0..8] and specialize_for_len
\* nothing but state[11]; so once specialize_for_len(len) was called on the
\* initial state, whatever is absorbed before the next permutation, state[11] is
\* len, state[8..11] are zero, and after an Overwrite state[0..8] is the block
\* absorbed last.
C18_SpongeFrame ==
    /\ sponge.op = "absorb_into_state" =>
        \A i \in RATE..(STATE_WIDTH - 1) : sponge.state[i] = sponge.prev[i]
    /\ sponge.op = "specialize_for_len" =>
        \A i \in 0..(STATE_WIDTH - 2) : sponge.state[i] = sponge.prev[i]
    /\ sponge.specialized =>
        /\ sponge.state[11] = sponge.len
        /\ \A i \in RATE..(STATE_WIDTH - 2) : sponge.state[i] = ZERO
    /\ sponge.op = "absorb_into_state" /\ sponge.mode = "Overwrite" =>
        \A i \in 0..(RATE - 1) : sponge.state[i] = sponge.block[i]
    /\ sponge.op = "absorb_into_state" /\ sponge.mode = "Addition" =>
        \A i \in 0..(RATE - 1) :
            congruent(wide(sponge.state[i]),
                      plus(wide(sponge.prev[i]), wide(sponge.block[i])))

\* the length 2^32 - 1 was set, then a block was added and another one, with
\* non-canonical elements, was written over it
C18_Witness ==
    /\ sponge.specialized
    /\ sponge.len = <<0, 0, 65535, 65535>>
    /\ sponge.absorbs = 2
    /\ sponge.op = "absorb_into_state"
    /\ sponge.mode = "Overwrite"
    /\ sponge.prev[11] = sponge.len
    /\ \E i \in 0..(RATE - 1) : /\ sponge.prev[i] # ZERO
                                /\ sponge.prev[i] # sponge.state[i]
                                /\ ~is_canonical(sponge.block[i])

====
